---- MODULE Spec2Model ----
(***************************************************************************)
(* Model of src/img.py: a Telegram bot with three handlers                 *)
(* (start_command, handle_photo, delete_unwanted_messages) registered in   *)
(* main() on a python-telegram-bot Application.                            *)
(*                                                                         *)
(* A step of the model is the code between two awaits: an action named     *)
(* after an await completes that await (with the outcome the external      *)
(* service gave) and runs the handler up to its next await.  Updates are   *)
(* new messages (update.message is set); a photo message carries its text  *)
(* in `caption` and has no `text`, as the Bot API delivers it.             *)
(***************************************************************************)
EXTENDS Integers, Sequences, FiniteSets, TLC

\* ------------------------------------------------------------------ bounds
NumUsers == 2
NumChats == 2
MaxMsgs == 3

Users == 1..NumUsers
Chats == 1..NumChats

\* ------------------------------------------------------------- text values
\* A text is a sequence of characters; <<>> stands for None (no text).
NoText == <<>>
SlashStart == <<"/", "s", "t", "a", "r", "t">>
BotUsername == <<"b">>

Texts ==
    { NoText,
      <<"h", "i">>,
      <<"h", "i", " ">> \o SlashStart,
      SlashStart,
      SlashStart \o <<" ", "x">>,
      SlashStart \o <<"f", "o", "o">>,
      <<"/", "S", "t", "a", "r", "t">>,
      SlashStart \o <<"@">> \o BotUsername,
      SlashStart \o <<"@", "c">>,
      <<"/", "h", "e", "l", "p">> }

Captions == { NoText, SlashStart }

\* message.photo: the tuple of PhotoSize variants, empty when there is none.
Photos == { <<>>, <<"small", "large">> }

InboundMessages ==
    [chat : Chats, from : Users, photo : {<<>>}, text : Texts, caption : {NoText}]
    \cup
    [chat : Chats, from : Users, photo : Photos \ {<<>>}, text : {NoText},
     caption : Captions]

\* str.lower() on the model's alphabet.
Lower(c) == IF c = "S" THEN "s" ELSE c

LowerAll(t) == [i \in 1..Len(t) |-> Lower(t[i])]

\* str.startswith
StartsWith(t, p) == Len(t) >= Len(p) /\ SubSeq(t, 1, Len(p)) = p

\* The characters a bot command (and a username) is made of.
IsCmdChar(c) == c \notin {" ", "/", "@"}

RECURSIVE RunLen(_, _)
RunLen(t, i) ==
    IF i <= Len(t) /\ IsCmdChar(t[i]) THEN 1 + RunLen(t, i + 1) ELSE 0

\* Length of the bot_command entity at offset 0 of message.text (0: none).
EntityLen(t) ==
    IF Len(t) < 2 \/ t[1] # "/" \/ RunLen(t, 2) = 0 THEN 0
    ELSE LET e == 1 + RunLen(t, 2)
         IN  IF e < Len(t) /\ t[e + 1] = "@" /\ RunLen(t, e + 2) > 0
             THEN e + 1 + RunLen(t, e + 2)
             ELSE e

\* Index of the first "@" of t, 0 when there is none.
RECURSIVE AtPos(_, _)
AtPos(t, i) ==
    IF i > Len(t) THEN 0 ELSE IF t[i] = "@" THEN i ELSE AtPos(t, i + 1)

\* ----------------------------------------------------------------- filters
\* filters.PHOTO: bool(message.photo)
PHOTO(m) == m.photo # <<>>

\* filters.COMMAND: message.text starts with a bot_command entity.
COMMAND(m) == EntityLen(m.text) > 0

\* Variant of CommandHandlerStart that tests the text for the prefix "/start".
CommandHandlerPrefix(m) == m.text # NoText /\ StartsWith(m.text, SlashStart)

\* CommandHandler("start", ...).check_update
CommandHandlerStart(m) ==
    /\ EntityLen(m.text) > 0
    /\ LET command == SubSeq(m.text, 2, EntityLen(m.text))
           at      == AtPos(command, 1)
           name    == IF at = 0 THEN command ELSE SubSeq(command, 1, at - 1)
           uname   == IF at = 0 THEN BotUsername
                      ELSE SubSeq(command, at + 1, Len(command))
       IN  /\ LowerAll(name) = SubSeq(SlashStart, 2, Len(SlashStart))
           /\ LowerAll(uname) = LowerAll(BotUsername)

\* Variant of HandlePhotoFilter that also wants the photo to have no caption
\* (filters.PHOTO & ~filters.COMMAND & ~filters.CAPTION).
HandlePhotoCaptionless(m) == PHOTO(m) /\ ~COMMAND(m) /\ m.caption = NoText

\* MessageHandler(filters.PHOTO & ~filters.COMMAND, handle_photo)
HandlePhotoFilter(m) == PHOTO(m) /\ ~COMMAND(m)

\* Variant of ModerationFilter without the command test (~filters.PHOTO).
ModerationFilterAnyText(m) == ~PHOTO(m)

\* MessageHandler(~filters.PHOTO & ~filters.COMMAND, delete_unwanted_messages)
ModerationFilter(m) == ~PHOTO(m) /\ ~COMMAND(m)

\* The condition delete_unwanted_messages itself evaluates.
DeleteUnwantedCond(m) ==
    ~PHOTO(m) /\ ~(m.text # NoText /\ StartsWith(m.text, SlashStart))

\* ------------------------------------------------------------ reply texts
\* A reply text is the sequence of the pieces the code concatenates.
GreetText == <<"This bot was made by\nt.me/ixeuc">>

\* The Markdown code fence, three grave accents (U+0060), spelled out: the
\* character cannot be written in a string of this module.
Fence == "<GRAVE><GRAVE><GRAVE>"

SuccessText(url) ==
    <<"**Uploaded Successfully!**\n", Fence, "\n", url, "\n", Fence>>

DefaultReason == "Unknown ImgBB API Error."

FailText(reason) == <<"Upload failed: ", reason>>

ConnText == <<"An error occurred while connecting to the image host.">>

GenericText == <<"An unexpected error occurred during processing.">>

\* --------------------------------------------------- upload API responses
Urls == { "https://i.ibb.co/abc/image.jpg", "https://x/y.jpg" }

Reasons == { "rate limited" }

\* JSON null
JNull == [null |-> TRUE]

\* response.json(): a JSON object is a record whose domain is its keys.
Payloads ==
    { [success |-> TRUE, data |-> [url |-> u]] : u \in Urls }
    \cup { [success |-> TRUE], [success |-> TRUE, data |-> [id |-> "x"]] }
    \cup { [success |-> FALSE, error |-> [message |-> r]] : r \in Reasons }
    \cup { [success |-> FALSE], [success |-> FALSE, error |-> [code |-> "x"]],
           [success |-> FALSE, error |-> JNull] }
    \cup { [status |-> "x"] }

\* The statuses raise_for_status raises an httpx.HTTPStatusError for.
ErrorStatuses == { 400, 500 }

\* What `await client.post(...)` gives: an httpx.RequestError (DNS, connect,
\* TLS, the 30 s timeout), or a response with a status and a body.
Responses ==
    { [kind |-> "transport_error"] }
    \cup { [kind |-> "http", status |-> st, json |-> TRUE,
             body |-> [success |-> FALSE, error |-> [message |-> r]]]
             : st \in ErrorStatuses, r \in Reasons }
    \cup { [kind |-> "http", status |-> 200, json |-> FALSE, body |-> JNull] }
    \cup { [kind |-> "http", status |-> 200, json |-> TRUE, body |-> p]
             : p \in Payloads }

Has(obj, key) == key \in DOMAIN obj

\* data.get("error", {}).get("message", "Unknown ImgBB API Error."); the
\* value "raise" stands for the AttributeError of None.get.
ErrorMessage(data) ==
    IF ~Has(data, "error") THEN DefaultReason
    ELSE IF data.error = JNull THEN "raise"
    ELSE IF Has(data.error, "message") THEN data.error.message
    ELSE DefaultReason

\* Variant of AfterPost that sends the POST again after a transport error.
AfterPostRetry(r) ==
    IF r.kind = "transport_error"
    THEN [pc |-> "hp_post", text |-> NoText, mode |-> "None"]
    ELSE IF r.status >= 400 \/ ~r.json \/ ~Has(r.body, "success")
              \/ (r.body.success /\ ~Has(r.body, "data"))
              \/ (r.body.success /\ Has(r.body, "data") /\ ~Has(r.body.data, "url"))
              \/ (~r.body.success /\ ErrorMessage(r.body) = "raise")
    THEN [pc |-> "hp_reply_generic", text |-> GenericText, mode |-> "None"]
    ELSE IF r.body.success
    THEN [pc |-> "hp_reply", text |-> SuccessText(r.body.data.url),
          mode |-> "Markdown"]
    ELSE [pc |-> "hp_reply", text |-> FailText(ErrorMessage(r.body)),
          mode |-> "None"]

\* Variant of AfterPost without response.raise_for_status().
AfterPostNoStatusCheck(r) ==
    IF r.kind = "transport_error"
    THEN [pc |-> "hp_reply_conn", text |-> ConnText, mode |-> "None"]
    ELSE IF ~r.json \/ ~Has(r.body, "success")
              \/ (r.body.success /\ ~Has(r.body, "data"))
              \/ (r.body.success /\ Has(r.body, "data") /\ ~Has(r.body.data, "url"))
              \/ (~r.body.success /\ ErrorMessage(r.body) = "raise")
    THEN [pc |-> "hp_reply_generic", text |-> GenericText, mode |-> "None"]
    ELSE IF r.body.success
    THEN [pc |-> "hp_reply", text |-> SuccessText(r.body.data.url),
          mode |-> "Markdown"]
    ELSE [pc |-> "hp_reply", text |-> FailText(ErrorMessage(r.body)),
          mode |-> "None"]

\* The try block from the response to its next await: the pc of the reply
\* it goes on to send, and the text of that reply.
\*   "hp_reply"         reply_text inside the try block
\*   "hp_reply_conn"    except httpx.RequestError
\*   "hp_reply_generic" except Exception
AfterPost(r) ==
    IF r.kind = "transport_error"
    THEN [pc |-> "hp_reply_conn", text |-> ConnText, mode |-> "None"]
    ELSE IF r.status >= 400 \/ ~r.json
              \/ ~Has(r.body, "success")
              \/ (r.body.success /\ ~Has(r.body, "data"))
              \/ (r.body.success /\ Has(r.body, "data") /\ ~Has(r.body.data, "url"))
              \/ (~r.body.success /\ ErrorMessage(r.body) = "raise")
    THEN [pc |-> "hp_reply_generic", text |-> GenericText, mode |-> "None"]
    ELSE IF r.body.success
    THEN [pc |-> "hp_reply", text |-> SuccessText(r.body.data.url),
          mode |-> "Markdown"]
    ELSE [pc |-> "hp_reply", text |-> FailText(ErrorMessage(r.body)),
          mode |-> "None"]

\* ------------------------------------------------------------------- state
VARIABLES
    user_data,   \* [Users -> BOOLEAN]: 'start_sent' in context.user_data
    nextId,      \* message_id of the next inbound message
    tasks,       \* message_id -> the handling of that update (see NewTask)
    greetings,   \* [Chats -> [Users -> Nat]]: greetings delivered so far
    greet_failed \* [Users -> BOOLEAN]: the last greeting send to u raised

vars == <<user_data, nextId, tasks, greetings, greet_failed>>

NoResponse == [kind |-> "none"]

\* The handling of one update by Application.process_update.
\*   pc       the await the task is suspended in, or the group it is about
\*            to be offered to, or "done"
\*   ran      the handler callbacks called for this update
\*   replies  the reply_text calls made, in order, each with its outcome
\*   deletes  the delete_message calls made, in order, each with its outcome
\*   file     the PhotoSize handle_photo fetches, message.photo[-1]
\*   bytes    whether photo_bytes holds the downloaded photo
\*   posts    the POSTs to the upload endpoint
\*   resp     what the POST gave
\*   next     the text of the reply the handler is about to send
\*   mode     the parse_mode of that reply
\*   flag     whether 'start_sent' was set when start_command tested it
\*   raised   whether an exception left a handler callback
\*   again    whether the sender's last greeting send had raised when
\*            start_command was entered
\*   offered  the handler groups the update has been offered to, in order
NewTask(m, id) ==
    [msg |-> m, message_id |-> id, pc |-> "group_m1", ran |-> {},
     offered |-> <<>>, again |-> FALSE,
     replies |-> <<>>, deletes |-> <<>>, file |-> "", bytes |-> FALSE,
     posts |-> 0, resp |-> NoResponse,
     next |-> NoText, mode |-> "None", flag |-> FALSE, raised |-> FALSE]

Running == { i \in DOMAIN tasks : tasks[i].pc # "done" }

Init ==
    /\ user_data = [u \in Users |-> FALSE]
    /\ nextId = 1
    /\ tasks = <<>>
    /\ greetings = [c \in Chats |-> [u \in Users |-> 0]]
    /\ greet_failed = [u \in Users |-> FALSE]

Set(id, t) == tasks' = [tasks EXCEPT ![id] = t]

Reply(text, reply_to, parse_mode, ok) ==
    [text |-> text, reply_to |-> reply_to, parse_mode |-> parse_mode, ok |-> ok]

Delete(chat, id, ok) == [chat_id |-> chat, message_id |-> id, ok |-> ok]

\* ------------------------------------------------------------ dispatcher
\* The group of add_handler(..., group=-1) and the default group of
\* add_handler; process_update offers an update to the groups in ascending
\* order.
ModerationGroup == -1

DefaultGroup == 0

\* Application.process_update is awaited for one update before the next is
\* taken from the queue (the builder is given no concurrent_updates), so an
\* update is delivered only when no other is being handled.
DeliverMsg(m) ==
    /\ nextId <= MaxMsgs
    /\ Running = {}
    /\ tasks' = [i \in Running \cup {nextId} |->
                   IF i = nextId THEN NewTask(m, nextId) ELSE tasks[i]]
    /\ nextId' = nextId + 1
    /\ UNCHANGED <<user_data, greetings, greet_failed>>

\* run_polling hands the dispatcher the next update, whatever it is.
Deliver == \E m \in InboundMessages : DeliverMsg(m)

\* Group -1, offered the update first: the catch-all MessageHandler.  When
\* its filter matches, delete_unwanted_messages runs to its await.
GroupMinus1 ==
    \E id \in DOMAIN tasks :
      /\ tasks[id].pc = "group_m1"
      /\ LET t == tasks[id]
         IN  IF ModerationFilter(t.msg)
             THEN Set(id, [t EXCEPT
                      !.offered = Append(@, ModerationGroup),
                      !.ran = @ \cup {"delete_unwanted_messages"},
                      !.pc = IF DeleteUnwantedCond(t.msg)
                             THEN "du_delete" ELSE "group_0"])
             ELSE Set(id, [t EXCEPT
                      !.offered = Append(@, ModerationGroup),
                      !.pc = "group_0"])
      /\ UNCHANGED <<user_data, nextId, greetings, greet_failed>>

\* delete_unwanted_messages: the awaited delete_message returns or raises;
\* either way the handler returns and group 0 is offered the update.
DuDelete ==
    \E id \in DOMAIN tasks :
      /\ tasks[id].pc = "du_delete"
      /\ \E ok \in BOOLEAN :
           LET t == tasks[id]
           IN  Set(id, [t EXCEPT
                   !.deletes = Append(@, Delete(t.msg.chat, t.message_id, ok)),
                   !.pc = "group_0"])
      /\ UNCHANGED <<user_data, nextId, greetings, greet_failed>>

\* Group 0: the first handler whose check matches is called, start_command
\* up to its first await (the greeting, or the delete when 'start_sent' is
\* set), handle_photo up to get_file.
Group0 ==
    \E id \in DOMAIN tasks :
      /\ tasks[id].pc = "group_0"
      /\ LET t == tasks[id]
         IN  IF CommandHandlerStart(t.msg)
             THEN Set(id, [t EXCEPT
                      !.offered = Append(@, DefaultGroup),
                      !.ran = @ \cup {"start_command"},
                      !.flag = user_data[t.msg.from],
                      !.again = greet_failed[t.msg.from],
                      !.pc = IF user_data[t.msg.from]
                             THEN "sc_delete" ELSE "sc_greet"])
             ELSE IF HandlePhotoFilter(t.msg)
             THEN Set(id, [t EXCEPT
                      !.offered = Append(@, DefaultGroup),
                      !.ran = @ \cup {"handle_photo"},
                      !.file = t.msg.photo[Len(t.msg.photo)],
                      !.pc = "hp_get_file"])
             ELSE Set(id, [t EXCEPT
                      !.offered = Append(@, DefaultGroup),
                      !.pc = "done"])
      /\ UNCHANGED <<user_data, nextId, greetings, greet_failed>>

\* ----------------------------------------------------------- start_command
\* Variant of MarkGreeted that leaves the flag unset.
MarkGreetedNever(ud, u) == ud

\* Variant of MarkGreeted that keeps one shared flag holder: setting it for
\* u drops it for every other sender.
MarkGreetedOnly(ud, u) == [v \in Users |-> v = u]

\* user_data['start_sent'] = True
MarkGreeted(ud, u) == [ud EXCEPT ![u] = TRUE]

\* Variant of FlagAfterGreeting that sets the flag however the send ended.
FlagAfterGreetingAlways(ud, u, ok) == MarkGreeted(ud, u)

\* The assignment of 'start_sent' follows the awaited send: it is reached
\* when the send returned, skipped when it raised.
FlagAfterGreeting(ud, u, ok) == IF ok THEN MarkGreeted(ud, u) ELSE ud

\* The awaited greeting reply_text returns (the flag is set, the handler
\* goes on to the delete) or raises (nothing catches it).
ScGreet ==
    \E id \in DOMAIN tasks :
      /\ tasks[id].pc = "sc_greet"
      /\ \E ok \in BOOLEAN :
           LET t == tasks[id]
               r == Reply(GreetText, 0, "None", ok)
           IN  /\ Set(id, [t EXCEPT
                       !.replies = Append(@, r),
                       !.raised = ~ok,
                       !.pc = IF ok THEN "sc_delete" ELSE "done"])
               /\ user_data' = FlagAfterGreeting(user_data, t.msg.from, ok)
               /\ greetings' = IF ok
                                THEN [greetings EXCEPT
                                        ![t.msg.chat][t.msg.from] = @ + 1]
                                ELSE greetings
               /\ greet_failed' = [greet_failed EXCEPT ![t.msg.from] = ~ok]
      /\ UNCHANGED nextId

\* Variant of ScDelete that tries a failed delete a second time.
ScDeleteRetry ==
    \E id \in DOMAIN tasks :
      /\ tasks[id].pc = "sc_delete"
      /\ \E ok \in BOOLEAN :
           LET t == tasks[id]
           IN  Set(id, [t EXCEPT
                   !.deletes = Append(@, Delete(t.msg.chat, t.message_id, ok)),
                   !.pc = IF ~ok /\ t.deletes = <<>>
                          THEN "sc_delete" ELSE "done"])
      /\ UNCHANGED <<user_data, nextId, greetings, greet_failed>>

\* The awaited delete_message of the command message returns or raises; the
\* except clause logs a warning.
ScDelete ==
    \E id \in DOMAIN tasks :
      /\ tasks[id].pc = "sc_delete"
      /\ \E ok \in BOOLEAN :
           LET t == tasks[id]
           IN  Set(id, [t EXCEPT
                   !.deletes = Append(@, Delete(t.msg.chat, t.message_id, ok)),
                   !.pc = "done"])
      /\ UNCHANGED <<user_data, nextId, greetings, greet_failed>>

\* ------------------------------------------------------------ handle_photo
\* await message.photo[-1].get_file(), outside any try.
HpGetFile ==
    \E id \in DOMAIN tasks :
      /\ tasks[id].pc = "hp_get_file"
      /\ \E ok \in BOOLEAN :
           LET t == tasks[id]
           IN  IF ok THEN Set(id, [t EXCEPT !.pc = "hp_download"])
               ELSE Set(id, [t EXCEPT !.raised = TRUE, !.pc = "done"])
      /\ UNCHANGED <<user_data, nextId, greetings, greet_failed>>

\* await photo_file.download_to_memory(photo_bytes), outside any try.
HpDownload ==
    \E id \in DOMAIN tasks :
      /\ tasks[id].pc = "hp_download"
      /\ \E ok \in BOOLEAN :
           LET t == tasks[id]
           IN  IF ok THEN Set(id, [t EXCEPT !.bytes = TRUE, !.pc = "hp_post"])
               ELSE Set(id, [t EXCEPT !.raised = TRUE, !.pc = "done"])
      /\ UNCHANGED <<user_data, nextId, greetings, greet_failed>>

\* await client.post(...), then the try block up to the reply it sends.
HpPost ==
    \E id \in DOMAIN tasks :
      /\ tasks[id].pc = "hp_post"
      /\ \E r \in Responses :
           LET t == tasks[id]
               a == AfterPost(r)
           IN  Set(id, [t EXCEPT !.posts = @ + 1, !.resp = r, !.pc = a.pc,
                                 !.next = a.text, !.mode = a.mode])
      /\ UNCHANGED <<user_data, nextId, greetings, greet_failed>>

\* The reply_text inside the try block (the success reply or the
\* "Upload failed" reply): when it raises, the error is a telegram one, not
\* an httpx.RequestError, and `except Exception` sends the generic reply.
HpReply ==
    \E id \in DOMAIN tasks :
      /\ tasks[id].pc = "hp_reply"
      /\ \E ok \in BOOLEAN :
           LET t == tasks[id]
               r == Reply(t.next, t.message_id, t.mode, ok)
           IN  IF ok
               THEN Set(id, [t EXCEPT !.replies = Append(@, r), !.pc = "done"])
               ELSE Set(id, [t EXCEPT !.replies = Append(@, r),
                                      !.pc = "hp_reply_generic",
                                      !.next = GenericText, !.mode = "None"])
      /\ UNCHANGED <<user_data, nextId, greetings, greet_failed>>

\* Variant of HpReplyConn in which a failure of the connectivity reply is
\* caught by the `except Exception` clause that follows.
HpReplyConnFallsThrough ==
    \E id \in DOMAIN tasks :
      /\ tasks[id].pc = "hp_reply_conn"
      /\ \E ok \in BOOLEAN :
           LET t == tasks[id]
               r == Reply(t.next, t.message_id, t.mode, ok)
           IN  IF ok
               THEN Set(id, [t EXCEPT !.replies = Append(@, r), !.pc = "done"])
               ELSE Set(id, [t EXCEPT !.replies = Append(@, r),
                                      !.pc = "hp_reply_generic",
                                      !.next = GenericText, !.mode = "None"])
      /\ UNCHANGED <<user_data, nextId, greetings, greet_failed>>

\* The reply_text of `except httpx.RequestError`; nothing catches its failure.
HpReplyConn ==
    \E id \in DOMAIN tasks :
      /\ tasks[id].pc = "hp_reply_conn"
      /\ \E ok \in BOOLEAN :
           LET t == tasks[id]
               r == Reply(t.next, t.message_id, t.mode, ok)
           IN  Set(id, [t EXCEPT !.replies = Append(@, r), !.raised = ~ok,
                                 !.pc = "done"])
      /\ UNCHANGED <<user_data, nextId, greetings, greet_failed>>

\* The reply_text of `except Exception`; nothing catches its failure.
HpReplyGeneric ==
    \E id \in DOMAIN tasks :
      /\ tasks[id].pc = "hp_reply_generic"
      /\ \E ok \in BOOLEAN :
           LET t == tasks[id]
               r == Reply(t.next, t.message_id, t.mode, ok)
           IN  Set(id, [t EXCEPT !.replies = Append(@, r), !.raised = ~ok,
                                 !.pc = "done"])
      /\ UNCHANGED <<user_data, nextId, greetings, greet_failed>>

\* ------------------------------------------------------------ specification
Next ==
    \/ Deliver
    \/ GroupMinus1
    \/ DuDelete
    \/ Group0
    \/ ScGreet
    \/ ScDelete
    \/ HpGetFile
    \/ HpDownload
    \/ HpPost
    \/ HpReply
    \/ HpReplyConn
    \/ HpReplyGeneric

Spec == Init /\ [][Next]_vars

TypeOK ==
    /\ user_data \in [Users -> BOOLEAN]
    /\ nextId \in 1..(MaxMsgs + 1)
    /\ DOMAIN tasks \subseteq 1..MaxMsgs
    /\ \A id \in DOMAIN tasks :
         /\ tasks[id].msg \in InboundMessages
         /\ tasks[id].message_id = id
         /\ tasks[id].posts \in 0..1
    /\ greetings \in [Chats -> [Users -> 0..MaxMsgs]]
    /\ greet_failed \in [Users -> BOOLEAN]

\* ------------------------------------------------------------------ claims
\* The updates whose handling has ended.
Handled == { id \in DOMAIN tasks : tasks[id].pc = "done" }

NumDeletes(id) == Len(tasks[id].deletes)

NumReplies(id) == Len(tasks[id].replies)

IsStartCommand(m) == CommandHandlerStart(m)

IsOtherCommand(m) == COMMAND(m) /\ ~CommandHandlerStart(m)

IsPlain(m) == ~PHOTO(m) /\ ~COMMAND(m)

C2_NonStartTextDeletedOnce ==
    \A id \in Handled :
        LET m == tasks[id].msg
        IN  (~PHOTO(m) /\ ~StartsWith(m.text, SlashStart)) =>
                /\ "delete_unwanted_messages" \in tasks[id].ran
                /\ NumDeletes(id) = 1

\* C3: for a message with a photo, whatever its caption, no delete is ever
\* attempted, and once group 0 has been offered the update handle_photo is
\* the one handler that ran.
C3_PhotoUploadedNeverDeleted ==
    \A id \in DOMAIN tasks :
        PHOTO(tasks[id].msg) =>
            /\ tasks[id].deletes = <<>>
            /\ tasks[id].pc \notin {"group_m1", "group_0"} =>
                 tasks[id].ran = {"handle_photo"}

\* C3's case: a photo captioned "/start" was handled by handle_photo, which
\* replied, and nothing was deleted.
C3_Witness ==
    \E id \in Handled :
        /\ PHOTO(tasks[id].msg)
        /\ tasks[id].msg.caption = SlashStart
        /\ tasks[id].ran = {"handle_photo"}
        /\ NumReplies(id) >= 1
        /\ NumDeletes(id) = 0

RECURSIVE SumOver(_, _)
SumOver(f, S) ==
    IF S = {} THEN 0
    ELSE LET x == CHOOSE y \in S : TRUE IN f[x] + SumOver(f, S \ {x})

\* The greetings delivered in chat c, to any sender.
GreetingsInChat(c) == SumOver(greetings[c], Users)

\* The greetings delivered to sender u, in any chat.
GreetingsToUser(u) == SumOver([c \in Chats |-> greetings[c][u]], Chats)

\* C4, as stated: the flag is per chat, so at most one greeting is ever
\* delivered in a chat, whoever sends the start commands.
C4_OneGreetingPerChat == \A c \in Chats : GreetingsInChat(c) <= 1

\* C4, amended: the flag is per sender (context.user_data).  Over start
\* commands handled one after the other, a sender is delivered at most one
\* greeting, in whatever chats the commands arrive; the flag is set exactly
\* for the senders that were delivered one; a start command of a sender
\* with the flag set sends no greeting and only attempts the deletion; a
\* start command of a sender without it attempts the greeting.
C4_OneGreetingPerSender ==
    /\ \A u \in Users :
         /\ GreetingsToUser(u) <= 1
         /\ user_data[u] <=> GreetingsToUser(u) = 1
    /\ \A id \in DOMAIN tasks :
         LET t == tasks[id]
         IN  "start_command" \in t.ran =>
               /\ t.flag => /\ t.replies = <<>>
                            /\ t.pc \in {"sc_delete", "done"}
                            /\ t.pc = "done" => NumDeletes(id) = 1
               /\ ~t.flag /\ t.pc # "sc_greet" =>
                     /\ NumReplies(id) = 1
                     /\ t.replies[1].text = GreetText

\* C4's case: a sender greeted in one chat sends a start command in another
\* chat, which is deleted without a greeting.
C4_Witness ==
    \E id \in Handled :
        LET t == tasks[id]
        IN  /\ "start_command" \in t.ran
            /\ t.flag
            /\ t.replies = <<>>
            /\ NumDeletes(id) = 1
            /\ greetings[t.msg.chat][t.msg.from] = 0
            /\ GreetingsToUser(t.msg.from) = 1

\* C5, as stated: every handled start command had the deletion of the
\* command message attempted exactly once, also when the greeting send
\* failed.
C5_StartAlwaysDeletes ==
    \A id \in Handled :
        "start_command" \in tasks[id].ran => NumDeletes(id) = 1

\* C6, as stated: no exception leaves a handler, whichever external call
\* fails.
C6_NoExceptionPropagates == \A id \in DOMAIN tasks : ~tasks[id].raised

\* C7, as stated: when the POST fails at transport level, handle_photo does
\* not raise and its reply to the photo message is the connectivity message.
C7_TransportErrorReply ==
    \A id \in Handled :
        LET t == tasks[id]
        IN  t.resp.kind = "transport_error" =>
              /\ ~t.raised
              /\ NumReplies(id) = 1
              /\ t.replies[1].text = ConnText
              /\ t.replies[1].reply_to = id

\* The payloads of C8: success is false, and the error object is absent or
\* an object.
IsApiFailure(r) ==
    /\ r.kind = "http" /\ r.status = 200 /\ r.json
    /\ Has(r.body, "success") /\ ~r.body.success
    /\ Has(r.body, "error") => r.body.error # JNull

\* The reason C8 names: the message of the error object, or the default.
ClaimedReason(body) ==
    IF Has(body, "error") /\ Has(body.error, "message")
    THEN body.error.message ELSE DefaultReason

\* C8, as stated: for HTTP success with success false, the reply is
\* "Upload failed: <reason>" and no other reply text is produced.
C8_ApiFailureReply ==
    \A id \in Handled :
        LET t == tasks[id]
        IN  IsApiFailure(t.resp) =>
              /\ NumReplies(id) >= 1
              /\ \A i \in 1..NumReplies(id) :
                   t.replies[i].text = FailText(ClaimedReason(t.resp.body))

\* The payloads of C9: success is true and data.url is there.
IsApiSuccess(r) ==
    /\ r.kind = "http" /\ r.status = 200 /\ r.json
    /\ Has(r.body, "success") /\ r.body.success
    /\ Has(r.body, "data") /\ Has(r.body.data, "url")

\* C9, as stated: for HTTP success with success true, exactly one reply is
\* sent, to the photo message, with the bold line and the payload's url in
\* a code block, and the photo message is not deleted.
C9_SuccessReply ==
    \A id \in Handled :
        LET t == tasks[id]
        IN  IsApiSuccess(t.resp) =>
              /\ NumReplies(id) = 1
              /\ t.replies[1].text = SuccessText(t.resp.body.data.url)
              /\ t.replies[1].reply_to = id
              /\ t.replies[1].ok
              /\ t.deletes = <<>>

\* C10: once 'start_sent' is set for a session, no step of any handler
\* clears it.
C10_FlagNeverReverts ==
    [][\A u \in Users : user_data[u] => user_data'[u]]_vars

\* C10's case: with the flag of a sender set, a further start command of
\* that sender and updates of other kinds were handled, and it is still set.
C10_Witness ==
    /\ nextId = MaxMsgs + 1
    /\ \E id \in Handled :
         /\ "start_command" \in tasks[id].ran
         /\ tasks[id].flag
         /\ user_data[tasks[id].msg.from]
    /\ \E u \in Users : ~user_data[u]

\* C11, as stated: handling a photo message issues exactly one POST to the
\* upload endpoint.
C11_ExactlyOnePost ==
    \A id \in Handled :
        "handle_photo" \in tasks[id].ran => tasks[id].posts = 1

\* C11, amended: handling a photo message issues at most one POST, and
\* exactly one whenever the file fetch and the download succeeded (none when
\* one of them raised); whatever the POST gave, and whether or not the reply
\* sends that follow fail, no second POST is issued.
C11_AtMostOnePost ==
    \A id \in DOMAIN tasks :
        LET t == tasks[id]
        IN  /\ t.posts <= 1
            /\ "handle_photo" \notin t.ran => t.posts = 0
            /\ t.pc \in {"hp_reply", "hp_reply_conn", "hp_reply_generic"}
                 => t.posts = 1
            /\ t.pc = "done" /\ "handle_photo" \in t.ran =>
                 t.posts = IF t.bytes THEN 1 ELSE 0

\* C11's case: the POST was answered, the reply send failed and a second
\* reply was sent, with still one POST.
C11_Witness ==
    \E id \in Handled :
        /\ tasks[id].posts = 1
        /\ NumReplies(id) = 2
        /\ ~tasks[id].replies[1].ok

\* The updates group 0 has been offered.
Routed ==
    { id \in DOMAIN tasks :
        tasks[id].pc \notin {"group_m1", "du_delete", "group_0"} }

\* A text that is the command /start: "/start" in any letter case, then the
\* end of the text, arguments after a space, or "@" and the name of this bot.
IsStartCommandText(t) ==
    LET n    == Len(SlashStart)
        rest == SubSeq(t, n + 1, Len(t))
    IN  /\ Len(t) >= n
        /\ LowerAll(SubSeq(t, 1, n)) = SlashStart
        /\ \/ rest = <<>>
           \/ rest[1] = " "
           \/ /\ rest[1] = "@"
              /\ \/ LowerAll(Tail(rest)) = LowerAll(BotUsername)
                 \/ StartsWith(LowerAll(Tail(rest)),
                               LowerAll(BotUsername) \o <<" ">>)

C14_OtherChatNotBlocked ==
    \A id \in DOMAIN tasks :
        tasks[id].pc = "hp_post" /\ nextId <= MaxMsgs =>
            \A m \in InboundMessages :
                m.chat # tasks[id].msg.chat => ENABLED DeliverMsg(m)

\* Group g was offered update id before group h was.
OfferedBefore(id, g, h) ==
    LET o == tasks[id].offered
    IN  \A i \in DOMAIN o :
            o[i] = h => \E j \in 1..(i - 1) : o[j] = g

\* C15, as stated: the moderation handler is evaluated in a later pass than
\* the specific handlers, and at most one of start_command, handle_photo and
\* delete_unwanted_messages runs for a message.
C15_ModerationPassLast ==
    \A id \in DOMAIN tasks :
        /\ OfferedBefore(id, DefaultGroup, ModerationGroup)
        /\ Cardinality(tasks[id].ran) <= 1

\* C15, amended: the moderation handler (group -1) is evaluated in the pass
\* before the specific handlers (group 0), every update is offered to both
\* passes, and still at most one of the three handlers runs for a message:
\* one handled by start_command or handle_photo is never passed to
\* delete_unwanted_messages.
C15_ModerationPassFirst ==
    \A id \in DOMAIN tasks :
        LET t == tasks[id]
        IN  /\ OfferedBefore(id, ModerationGroup, DefaultGroup)
            /\ t.pc # "group_m1" => t.offered[1] = ModerationGroup
            /\ id \in Routed => t.offered = <<ModerationGroup, DefaultGroup>>
            /\ Cardinality(t.ran) <= 1
            /\ t.ran \cap {"start_command", "handle_photo"} # {} =>
                 "delete_unwanted_messages" \notin t.ran

\* C15's case: a start command went through the moderation pass, then the
\* pass of the specific handlers, and only start_command ran.
C15_Witness ==
    \E id \in Handled :
        /\ tasks[id].offered = <<ModerationGroup, DefaultGroup>>
        /\ tasks[id].ran = {"start_command"}
        /\ NumDeletes(id) = 1

\* What a step does to update id when it completes a delete attempt that
\* fails: the attempt is recorded and is the only one, no reply is sent, no
\* exception leaves the handler, the flag is untouched, and the handler
\* returns (start_command ends the handling, delete_unwanted_messages hands
\* the update on to group 0).
DeleteFailureStep(id) ==
    LET t == tasks[id]
        n == tasks'[id]
    IN  /\ t.pc \in {"sc_delete", "du_delete"}
        /\ n.deletes # t.deletes
        /\ ~n.deletes[Len(n.deletes)].ok
        => /\ Len(t.deletes) = 0
           /\ Len(n.deletes) = 1
           /\ n.replies = t.replies
           /\ ~n.raised
           /\ user_data' = user_data
           /\ n.pc = IF t.pc = "sc_delete" THEN "done" ELSE "group_0"

\* Once update id has a failed delete attempt, nothing more is sent or
\* deleted for it and its handling ends without an exception.
AfterDeleteFailureStep(id) ==
    LET t == tasks[id]
        n == tasks'[id]
    IN  t.deletes # <<>> /\ ~t.deletes[1].ok
        => /\ n.deletes = t.deletes
           /\ n.replies = t.replies
           /\ ~n.raised
           /\ n.ran = t.ran
           /\ n.pc \in {t.pc, "done"}
           /\ user_data'[t.msg.from] = user_data[t.msg.from]

\* C16: when a delete attempt fails in the moderation path or the greeting
\* path, the handler completes normally: no reply or other message is sent
\* because of it, the delete is not retried, and the greeted flag stays as
\* the greeting step left it.
C16_DeleteFailureNonFatal ==
    [][\A id \in DOMAIN tasks \cap DOMAIN tasks' :
           DeleteFailureStep(id) /\ AfterDeleteFailureStep(id)]_vars

\* C16's case: a first start command was greeted, its delete failed, and
\* the handling ended with the one greeting, the one delete attempt and the
\* flag set.
C16_Witness ==
    \E id \in Handled :
        /\ tasks[id].ran = {"start_command"}
        /\ NumDeletes(id) = 1
        /\ ~tasks[id].deletes[1].ok
        /\ NumReplies(id) = 1
        /\ tasks[id].replies[1].ok
        /\ ~tasks[id].raised
        /\ user_data[tasks[id].msg.from]

\* C17: 'start_sent' is set only after the greeting send has returned, so
\* a set flag implies a greeting delivered to that session; when the send
\* raises the flag stays unset, and the next start command of the session
\* finds it unset and attempts the greeting again.
C17_FlagOnlyAfterGreeting ==
    /\ \A u \in Users :
         /\ user_data[u] => GreetingsToUser(u) >= 1
         /\ greet_failed[u] => ~user_data[u]
    /\ \A id \in DOMAIN tasks :
         LET t == tasks[id]
         IN  /\ t.pc = "done" /\ "start_command" \in t.ran /\ t.raised =>
                  /\ ~t.replies[1].ok
                  /\ ~user_data[t.msg.from]
                  /\ greet_failed[t.msg.from]
             /\ t.again =>
                  /\ ~t.flag
                  /\ t.pc = "sc_greet" \/ t.replies[1].text = GreetText

\* C17's case: a start command whose sender's previous greeting send had
\* raised attempted the greeting again, this time delivered, and the flag is
\* now set.
C17_Witness ==
    \E id \in Handled :
        /\ tasks[id].again
        /\ NumReplies(id) = 1
        /\ tasks[id].replies[1].text = GreetText
        /\ tasks[id].replies[1].ok
        /\ user_data[tasks[id].msg.from]
        /\ GreetingsToUser(tasks[id].msg.from) = 1

\* The upload endpoint answered with a status outside 2xx.
IsErrorStatus(r) == r.kind = "http" /\ r.status \notin 200..299

\* C18: when the upload endpoint answers with a non-2xx status, the reply
\* is the generic "unexpected error" message, never the connectivity message
\* nor "Upload failed: <reason>", whatever the response body carries.
C18_ErrorStatusGenericReply ==
    \A id \in DOMAIN tasks :
        LET t == tasks[id]
        IN  IsErrorStatus(t.resp) =>
              /\ t.pc \in {"hp_reply_generic", "done"}
              /\ \A i \in DOMAIN t.replies :
                   /\ t.replies[i].text = GenericText
                   /\ t.replies[i].text # ConnText
                   /\ \A r \in Reasons \cup {DefaultReason} :
                        t.replies[i].text # FailText(r)
              /\ t.pc = "hp_reply_generic" =>
                   t.next = GenericText /\ t.replies = <<>>
              /\ t.pc = "done" => NumReplies(id) = 1

\* C18's case: the endpoint answered an error status with a body carrying
\* success false and an error message, and the one reply was the generic one.
C18_Witness ==
    \E id \in Handled :
        LET t == tasks[id]
        IN  /\ IsErrorStatus(t.resp)
            /\ t.resp.json
            /\ ~t.resp.body.success
            /\ t.resp.body.error.message \in Reasons
            /\ NumReplies(id) = 1
            /\ t.replies[1].text = GenericText
            /\ t.replies[1].ok

\* The texts of the replies sent inside the try block.
InTryTexts ==
    { SuccessText(u) : u \in Urls }
    \cup { FailText(r) : r \in Reasons \cup {DefaultReason} }

\* C19: handle_photo attempts at most two reply sends per photo message;
\* exactly one when the first send succeeds; a second one, the generic error
\* message, only when the first was the reply inside the try block (the
\* success reply or the "Upload failed" reply) and it raised.
C19_AtMostTwoReplies ==
    \A id \in DOMAIN tasks :
        LET t == tasks[id]
        IN  "handle_photo" \in t.ran =>
              /\ NumReplies(id) <= 2
              /\ NumReplies(id) >= 1 /\ t.replies[1].ok =>
                   NumReplies(id) = 1 /\ t.pc = "done"
              /\ NumReplies(id) = 2 =>
                   /\ ~t.replies[1].ok
                   /\ t.replies[1].text \in InTryTexts
                   /\ t.replies[2].text = GenericText
                   /\ t.pc = "done"
              /\ t.pc = "hp_reply_generic" /\ NumReplies(id) = 1 =>
                   ~t.replies[1].ok /\ t.replies[1].text \in InTryTexts
              /\ NumReplies(id) >= 1 /\ t.replies[1].text \notin InTryTexts =>
                   NumReplies(id) = 1 /\ t.pc = "done"

\* C19's case: the upload succeeded, the success reply raised, and the
\* second reply told the user an error occurred.
C19_Witness ==
    \E id \in Handled :
        LET t == tasks[id]
        IN  /\ IsApiSuccess(t.resp)
            /\ NumReplies(id) = 2
            /\ ~t.replies[1].ok
            /\ t.replies[1].text = SuccessText(t.resp.body.data.url)
            /\ t.replies[2].text = GenericText
            /\ t.replies[2].ok

====
